---- MODULE Spec2Model ----
(***************************************************************************)
(* A model of the iroh upload gateway (src/main.rs): the identity key file *)
(* handled by load_or_generate_secret_key, the startup and shutdown        *)
(* sequence of main, and the upload_file and get_node_id request handlers  *)
(* that run concurrently while the HTTP server is serving (Spec); and the  *)
(* calls of load_or_generate_secret_key by processes that start at the     *)
(* same time on the same path (SpecRace).                                  *)
(***************************************************************************)
EXTENDS Integers, Sequences, FiniteSets, TLC

\* ------------------------------------------------------------------ bounds

\* Number of process runs (a run is one execution of main).
MaxRuns == 2
\* Number of upload requests the clients send over the whole behaviour.
NumRequests == 2
\* Number of processes that start at the same time on one key file path.
NumLoaders == 2

\* ---------------------------------------------------------------- constants

\* The length of a secret key ([u8; 32]).
KeyLen == 32

\* Byte values new secret keys are filled with (stands for OsRng's output).
KeySeeds == {7, 248}
\* Byte sequences the clients upload.
Payloads == {<<97>>, <<98>>}

Requests == 1..NumRequests

\* ------------------------------------------------------------------- state

VARIABLES
    key_file_exists,  \* Path::exists() of secret/secret_key.bin
    key_file,         \* the bytes of that file (<<>> when it does not exist)
    store,            \* the persistent blob store "data": the blobs it holds
    run,              \* the number of the current process run
    pc,               \* where main of the current run is
    secret_key,       \* main's secret_key
    endpoint,         \* main's endpoint
    blobs,            \* main's blobs: the content store
    local_pool,       \* main's local_pool
    node,             \* main's node (the iroh router)
    app_state,        \* main's app_state, shared with the handlers
    http,             \* the HTTP server: axum::serve(listener, app)
    calls,            \* how often each shutdown step was called in this run
    req,              \* the upload requests
    node_id_response, \* the latest response to GET /node-id in this run
    loaders           \* processes starting at once: each one's call of
                      \* load_or_generate_secret_key on the same path

vars == <<key_file_exists, key_file, store, run, pc, secret_key, endpoint,
          blobs, local_pool, node, app_state, http, calls, req,
          node_id_response, loaders>>

disk == <<key_file_exists, key_file>>
stack == <<endpoint, blobs, local_pool, node, app_state, http, calls>>

\* ----------------------------------------------------------------- values

\* Option<T>: None, or Some(x).
None == <<>>
Some(x) == <<x>>
IsSome(o) == Len(o) = 1
Unwrap(o) == o[1]

\* A 32-byte array filled with one byte value.
KeyBytes(seed) == [i \in 1..KeyLen |-> seed]

\* SecretKey::from_bytes and SecretKey::to_bytes.
from_bytes(key_array) == [secret |-> key_array]
to_bytes(sk) == sk.secret

\* The public key of a secret key: a fixed function of its bytes.
public(sk) == [public |-> [i \in 1..Len(sk.secret) |-> (sk.secret[i] * 5 + 3) % 256]]

\* endpoint.node_id(): the public key of the key the endpoint was built with.
node_id_of(ep) == public(ep.secret_key)

\* --------------------------------------------------------------- requests

\* A field as multipart.next_field() yields it: its headers. A file part
\* carries a file name, a plain form field does not.
Fields == [file_name : {None, Some("upload.bin")}]

\* A field read to its end: its bytes, and whether the body's closing
\* boundary followed them.
ReadField(field, data, last) ==
    [file_name |-> field.file_name, data |-> data, last |-> last]

IsFilePart(field) == IsSome(field.file_name)

\* The hash the blob store gives a byte sequence, and the Display form of
\* a value.
Hash(data) == [blake3 |-> data]
to_string(x) == [text |-> x]

\* BlobTicket::new(node_id.into(), hash, format)
BlobTicket(node_addr, hash, format) ==
    [node |-> node_addr, hash |-> hash, format |-> format]

StatusResponse(code) == Some([status |-> code, json |-> None])

\* The positions of an upload request.
InFlight == {"next_field", "bytes", "add_bytes", "new_ticket"}

\* received: the fields of the body read so far; field, data, blob: the
\* handler's locals; ingested: the byte sequences handed to add_bytes.
IdleRequest ==
    [pc |-> "idle", received |-> <<>>, field |-> None, data |-> None,
     blob |-> None, ingested |-> <<>>, response |-> None]

\* A request returns, panics or is dropped: the request and the handler's
\* locals are gone.
Gone(rq, at) ==
    [rq EXCEPT !.pc = at, !.received = <<>>, !.field = None, !.data = None,
               !.blob = None]

\* The process ends: the tasks of the requests still in flight end with it.
Dropped(rq) == IF rq.pc \in InFlight THEN Gone(rq, "dropped") ELSE rq

AbortRequests == req' = [r \in Requests |-> Dropped(req[r])]

\* A call of load_or_generate_secret_key by one of several processes that
\* start at once: where it stands, and the key it has generated or read.
Loaders == 1..NumLoaders
NotCalled == [pc |-> "none", secret_key |-> None]

\* ------------------------------------------------------------------- Init

\* Key files of a wrong length: empty, one byte short, one byte long.
BadKeyFiles ==
    {<<>>, [i \in 1..(KeyLen - 1) |-> 7], [i \in 1..(KeyLen + 1) |-> 7]}

Init ==
    /\ \/ key_file_exists = FALSE /\ key_file = <<>>
       \/ key_file_exists = TRUE
          /\ key_file \in {KeyBytes(7)} \cup BadKeyFiles
    /\ store = {}
    /\ run = 1
    /\ pc = "load_key"
    /\ secret_key = None
    /\ endpoint = None
    /\ blobs = "none"
    /\ local_pool = "none"
    /\ node = "none"
    /\ app_state = None
    /\ http = "none"
    /\ calls = [node_shutdown |-> 0, pool_shutdown |-> 0]
    /\ req = [r \in Requests |-> IdleRequest]
    /\ node_id_response = None
    /\ loaders = [p \in Loaders |-> NotCalled]

\* ------------------------------------------------ load_or_generate_secret_key

\* Faulty variant: the existence check is lost, a key is generated in every run.
CheckKeyFile_AlwaysGenerate ==
    /\ pc = "load_key"
    /\ pc' = "generate_key"
    /\ UNCHANGED <<node_id_response, loaders>>
    /\ UNCHANGED <<disk, store, run, secret_key, stack, req>>

\* if path.exists()
CheckKeyFile ==
    /\ pc = "load_key"
    /\ pc' = IF key_file_exists THEN "read_key" ELSE "generate_key"
    /\ UNCHANGED <<node_id_response, loaders>>
    /\ UNCHANGED <<disk, store, run, secret_key, stack, req>>

\* Faulty variant: the length of the file is not checked.
ReadKey_AnyLength ==
    /\ pc = "read_key"
    /\ \E read_ok \in BOOLEAN :
          IF read_ok /\ key_file_exists
          THEN /\ secret_key' = Some(from_bytes(key_file))
               /\ pc' = "bind_endpoint"
          ELSE /\ secret_key' = secret_key
               /\ pc' = "panicked"
    /\ UNCHANGED <<node_id_response, loaders, disk, store, run, stack, req>>

\* fs::read(path).expect(..), try_into().expect(..), SecretKey::from_bytes
ReadKey ==
    /\ pc = "read_key"
    /\ \E read_ok \in BOOLEAN :
          IF read_ok /\ key_file_exists /\ Len(key_file) = KeyLen
          THEN /\ secret_key' = Some(from_bytes(key_file))
               /\ pc' = "bind_endpoint"
          ELSE /\ secret_key' = secret_key
               /\ pc' = "panicked"
    /\ UNCHANGED <<node_id_response, loaders, disk, store, run, stack, req>>

\* Faulty variant: the key returned is not the key written (a second generate).
GenerateKey_ReturnsOtherKey ==
    /\ pc = "generate_key"
    /\ \E seed \in KeySeeds, other \in KeySeeds :
          /\ key_file_exists' = TRUE
          /\ key_file' = to_bytes(from_bytes(KeyBytes(seed)))
          /\ secret_key' = Some(from_bytes(KeyBytes(other)))
          /\ pc' = "bind_endpoint"
    /\ UNCHANGED <<node_id_response, loaders, store, run, stack, req>>

\* SecretKey::generate(OsRng), fs::write(path, &key_bytes).expect(..)
\* A failed write leaves no file, or a file holding a prefix of the bytes.
GenerateKey ==
    /\ pc = "generate_key"
    /\ \E seed \in KeySeeds, write_ok \in BOOLEAN :
          LET sk == from_bytes(KeyBytes(seed))
              key_bytes == to_bytes(sk)
          IN  IF write_ok
              THEN /\ key_file_exists' = TRUE
                   /\ key_file' = key_bytes
                   /\ secret_key' = Some(sk)
                   /\ pc' = "bind_endpoint"
              ELSE /\ \/ UNCHANGED disk
                      \/ /\ key_file_exists' = TRUE
                         /\ \E n \in {0, KeyLen \div 2} :
                               key_file' = SubSeq(key_bytes, 1, n)
                   /\ secret_key' = secret_key
                   /\ pc' = "panicked"
    /\ UNCHANGED <<node_id_response, loaders, store, run, stack, req>>

\* ------------------------------------------------------------------- main

\* Endpoint::builder().secret_key(secret_key).discovery_n0().bind().await?
BindEndpoint ==
    /\ pc = "bind_endpoint"
    /\ \E ok \in BOOLEAN :
          IF ok
          THEN /\ endpoint' = Some([secret_key |-> Unwrap(secret_key)])
               /\ pc' = "open_blobs"
          ELSE /\ endpoint' = endpoint
               /\ pc' = "exited_err"
    /\ UNCHANGED <<node_id_response, loaders>>
    /\ UNCHANGED <<disk, store, run, secret_key, blobs, local_pool, node,
                   app_state, http, calls, req>>

\* LocalPool::default(); Blobs::persistent("data").await?.build(..)
OpenBlobs ==
    /\ pc = "open_blobs"
    /\ local_pool' = "running"
    /\ \E ok \in BOOLEAN :
          IF ok
          THEN /\ blobs' = "open"
               /\ pc' = "spawn_router"
          ELSE /\ blobs' = blobs
               /\ pc' = "exited_err"
    /\ UNCHANGED <<node_id_response, loaders>>
    /\ UNCHANGED <<disk, store, run, secret_key, endpoint, node, app_state,
                   http, calls, req>>

\* Faulty variant: the error of spawn() is ignored and main goes on.
SpawnRouter_IgnoreError ==
    /\ pc = "spawn_router"
    /\ \E ok \in BOOLEAN :
          /\ node' = IF ok THEN "running" ELSE node
          /\ pc' = "read_node_id"
    /\ UNCHANGED <<node_id_response, loaders>>
    /\ UNCHANGED <<disk, store, run, secret_key, endpoint, blobs, local_pool,
                   app_state, http, calls, req>>

\* IrohRouter::builder(endpoint).accept(ALPN, blobs.clone()).spawn().await?
SpawnRouter ==
    /\ pc = "spawn_router"
    /\ \E ok \in BOOLEAN :
          IF ok
          THEN /\ node' = "running"
               /\ pc' = "read_node_id"
          ELSE /\ node' = node
               /\ pc' = "exited_err"
    /\ UNCHANGED <<node_id_response, loaders>>
    /\ UNCHANGED <<disk, store, run, secret_key, endpoint, blobs, local_pool,
                   app_state, http, calls, req>>

\* node.endpoint().node_id(); AppState { blobs, node_id }; the Axum app
BuildAppState ==
    /\ pc = "read_node_id"
    /\ app_state' = Some([blobs |-> blobs,
                          node_id |-> node_id_of(Unwrap(endpoint))])
    /\ pc' = "bind_listener"
    /\ UNCHANGED <<node_id_response, loaders>>
    /\ UNCHANGED <<disk, store, run, secret_key, endpoint, blobs, local_pool,
                   node, http, calls, req>>

\* TcpListener::bind("0.0.0.0:3000").await?; axum::serve(listener, app)
BindListener ==
    /\ pc = "bind_listener"
    /\ \E ok \in BOOLEAN :
          IF ok
          THEN pc' = "serve" /\ http' = "serving"
          ELSE pc' = "exited_err" /\ http' = http
    /\ UNCHANGED <<node_id_response, loaders>>
    /\ UNCHANGED <<disk, store, run, secret_key, endpoint, blobs, local_pool,
                   node, app_state, calls, req>>

\* Faulty variant: after the server's exit main goes to the pool's shutdown
\* and leaves the router's out.
ServeExit_SkipsRouterShutdown ==
    /\ pc = "serve"
    /\ \E ok \in BOOLEAN :
          IF ok
          THEN pc' = "pool_shutdown" /\ http' = "exited_ok" /\ req' = req
          ELSE pc' = "panicked" /\ http' = "exited_err" /\ AbortRequests
    /\ UNCHANGED <<node_id_response, loaders>>
    /\ UNCHANGED <<disk, store, run, secret_key, endpoint, blobs, local_pool,
                   node, app_state, calls>>

\* axum::serve(listener, app).await.unwrap(): the server exits, Ok or Err.
\* An Err panics in main; the requests in flight go on until main ends.
ServeExit ==
    /\ pc = "serve"
    /\ \E ok \in BOOLEAN :
          IF ok
          THEN pc' = "node_shutdown" /\ http' = "exited_ok" /\ req' = req
          ELSE pc' = "panicked" /\ http' = "exited_err" /\ AbortRequests
    /\ UNCHANGED <<node_id_response, loaders>>
    /\ UNCHANGED <<disk, store, run, secret_key, endpoint, blobs, local_pool,
                   node, app_state, calls>>

\* node.shutdown().await?
NodeShutdown ==
    /\ pc = "node_shutdown"
    /\ calls' = [calls EXCEPT !.node_shutdown = @ + 1]
    /\ \E ok \in BOOLEAN :
          IF ok
          THEN /\ node' = "shutdown"
               /\ pc' = "pool_shutdown"
               /\ req' = req
          ELSE /\ node' = "shutdown_failed"
               /\ pc' = "exited_err"
               /\ AbortRequests
    /\ UNCHANGED <<node_id_response, loaders>>
    /\ UNCHANGED <<disk, store, run, secret_key, endpoint, blobs, local_pool,
                   app_state, http>>

\* local_pool.shutdown().await; Ok(())
PoolShutdown ==
    /\ pc = "pool_shutdown"
    /\ calls' = [calls EXCEPT !.pool_shutdown = @ + 1]
    /\ local_pool' = "shutdown"
    /\ pc' = "exited_ok"
    /\ AbortRequests
    /\ UNCHANGED <<node_id_response, loaders>>
    /\ UNCHANGED <<disk, store, run, secret_key, endpoint, blobs, node,
                   app_state, http>>

\* The positions of main at which the process is running.
Alive ==
    {"load_key", "read_key", "generate_key", "bind_endpoint", "open_blobs",
     "spawn_router", "read_node_id", "bind_listener", "serve",
     "node_shutdown", "pool_shutdown"}

\* main installs no signal handler: a termination signal ends the process
\* where it stands.
Signal ==
    /\ pc \in Alive
    /\ pc' = "killed"
    /\ AbortRequests
    /\ UNCHANGED <<node_id_response, loaders, disk, store, run, secret_key, stack>>

\* A request of an earlier run: its connection is closed, nothing of it is
\* left in the new process.
Closed(rq) ==
    IF rq.pc = "idle" THEN rq ELSE [IdleRequest EXCEPT !.pc = "closed"]

\* The process is started again: the key file and the blob store are what
\* the earlier runs left on disk, everything else is new.
Restart ==
    /\ pc \notin Alive
    /\ run < MaxRuns
    /\ run' = run + 1
    /\ pc' = "load_key"
    /\ secret_key' = None
    /\ endpoint' = None
    /\ blobs' = "none"
    /\ local_pool' = "none"
    /\ node' = "none"
    /\ app_state' = None
    /\ http' = "none"
    /\ calls' = [node_shutdown |-> 0, pool_shutdown |-> 0]
    /\ req' = [r \in Requests |-> Closed(req[r])]
    /\ node_id_response' = None
    /\ UNCHANGED <<disk, store, loaders>>

\* ------------------------------------------------------------ upload_file

\* The handler tasks run while the process does, from the start of the
\* server until main ends.
Serving == pc \in {"serve", "node_shutdown", "pool_shutdown"}

\* The handler returns: its response is sent.
Finish(rq, resp) == [Gone(rq, "responded") EXCEPT !.response = resp]

\* The handler panics: its task ends without a response.
Panic(rq) == Gone(rq, "panicked")

\* A client sends POST /upload; the server accepts it while it serves.
\* let blobs_client = app_state.blobs.client();
Arrive(r) ==
    /\ pc = "serve"
    /\ http = "serving"
    /\ req[r].pc = "idle"
    /\ \A q \in Requests : q < r => req[q].pc # "idle"
    /\ req' = [req EXCEPT ![r] = [IdleRequest EXCEPT !.pc = "next_field"]]
    /\ UNCHANGED <<node_id_response, loaders, disk, store, run, pc,
                   secret_key, stack>>

\* The last field received was followed by the body's closing boundary.
BodyEnds(rq) == rq.received # <<>> /\ rq.received[Len(rq.received)].last

\* while let Some(field) = multipart.next_field().await.unwrap()
\* The stream yields Err (a malformed body), None or the next field.
\* None ends the loop: Err(StatusCode::BAD_REQUEST).
NextField(r) ==
    /\ Serving
    /\ req[r].pc = "next_field"
    /\ LET rq == req[r] IN
       \/ /\ ~BodyEnds(rq)
          /\ req' = [req EXCEPT ![r] = Panic(rq)]
       \/ /\ rq.received = <<>> \/ BodyEnds(rq)
          /\ req' = [req EXCEPT ![r] = Finish(rq, StatusResponse(400))]
       \/ /\ ~BodyEnds(rq)
          /\ \E field \in Fields :
                req' = [req EXCEPT ![r] =
                           [rq EXCEPT !.pc = "bytes", !.field = Some(field)]]
    /\ UNCHANGED <<node_id_response, loaders, disk, store, run, pc,
                   secret_key, stack>>

\* Faulty variant: the panic of the handler takes the process down.
ReadBytes_PanicEndsProcess(r) ==
    /\ Serving
    /\ req[r].pc = "bytes"
    /\ LET rq == req[r]
           field == Unwrap(rq.field)
       IN  \E ok \in BOOLEAN, data \in Payloads, last \in BOOLEAN :
              IF ok
              THEN /\ req' = [req EXCEPT ![r] =
                                 [rq EXCEPT
                                     !.pc = "add_bytes",
                                     !.data = Some(data),
                                     !.received =
                                        Append(@, ReadField(field, data, last))]]
                   /\ pc' = pc
              ELSE /\ req' = [q \in Requests |->
                                 IF q = r THEN Panic(rq) ELSE Dropped(req[q])]
                   /\ pc' = "panicked"
    /\ UNCHANGED <<node_id_response, loaders, disk, store, run, secret_key, stack>>

\* field.file_name().unwrap_or("unknown"); field.bytes().await.unwrap()
\* The stream yields the bytes of the field, or Err.
ReadBytes(r) ==
    /\ Serving
    /\ req[r].pc = "bytes"
    /\ LET rq == req[r]
           field == Unwrap(rq.field)
       IN  \E ok \in BOOLEAN, data \in Payloads, last \in BOOLEAN :
              req' = [req EXCEPT ![r] =
                         IF ok
                         THEN [rq EXCEPT
                                  !.pc = "add_bytes",
                                  !.data = Some(data),
                                  !.received =
                                     Append(@, ReadField(field, data, last))]
                         ELSE Panic(rq)]
    /\ UNCHANGED <<node_id_response, loaders, disk, store, run, pc,
                   secret_key, stack>>

\* Faulty variant: the descriptor's hash covers the field's file name as
\* well as its bytes.
AddBytes_HashesFileName(r) ==
    /\ Serving
    /\ req[r].pc = "add_bytes"
    /\ LET rq == req[r]
           data == Unwrap(rq.data)
           called == [rq EXCEPT !.ingested = Append(@, data)]
       IN  \E ok \in BOOLEAN, stored \in BOOLEAN :
              /\ ok => stored
              /\ store' = IF stored THEN store \cup {data} ELSE store
              /\ req' = [req EXCEPT ![r] =
                            IF ok
                            THEN [called EXCEPT
                                     !.pc = "new_ticket",
                                     !.blob = Some(
                                        [hash |-> Hash(<<Unwrap(rq.field), data>>),
                                         format |-> "Raw"])]
                            ELSE Finish(called, StatusResponse(500))]
    /\ UNCHANGED <<node_id_response, loaders, disk, run, pc, secret_key, stack>>

\* Faulty variant: after a failing add_bytes the handler goes on to the next
\* field of the request instead of returning.
AddBytes_ContinuesAfterError(r) ==
    /\ Serving
    /\ req[r].pc = "add_bytes"
    /\ LET rq == req[r]
           data == Unwrap(rq.data)
           called == [rq EXCEPT !.ingested = Append(@, data)]
       IN  \E ok \in BOOLEAN, stored \in BOOLEAN :
              /\ ok => stored
              /\ store' = IF stored THEN store \cup {data} ELSE store
              /\ req' = [req EXCEPT ![r] =
                            IF ok
                            THEN [called EXCEPT
                                     !.pc = "new_ticket",
                                     !.blob = Some([hash |-> Hash(data),
                                                    format |-> "Raw"])]
                            ELSE [called EXCEPT !.pc = "next_field",
                                                !.field = None,
                                                !.data = None]]
    /\ UNCHANGED <<node_id_response, loaders, disk, run, pc, secret_key, stack>>

\* blobs_client.add_bytes(data.clone()).await.map_err(|_| 500)?
\* A failing add_bytes may or may not have stored the bytes.
AddBytes(r) ==
    /\ Serving
    /\ req[r].pc = "add_bytes"
    /\ LET rq == req[r]
           data == Unwrap(rq.data)
           called == [rq EXCEPT !.ingested = Append(@, data)]
       IN  \E ok \in BOOLEAN, stored \in BOOLEAN :
              /\ ok => stored
              /\ store' = IF stored THEN store \cup {data} ELSE store
              /\ req' = [req EXCEPT ![r] =
                            IF ok
                            THEN [called EXCEPT
                                     !.pc = "new_ticket",
                                     !.blob = Some([hash |-> Hash(data),
                                                    format |-> "Raw"])]
                            ELSE Finish(called, StatusResponse(500))]
    /\ UNCHANGED <<node_id_response, loaders, disk, run, pc, secret_key, stack>>

\* Faulty variant: the ticket is built from a descriptor looked up in the
\* store, which may be the descriptor of another request's bytes.
NewTicket_DescriptorFromStore(r) ==
    /\ Serving
    /\ req[r].pc = "new_ticket"
    /\ LET rq == req[r]
           blob == Unwrap(rq.blob)
           node_id == Unwrap(app_state).node_id
       IN  \E ok \in BOOLEAN, data \in store :
              req' = [req EXCEPT ![r] =
                         IF ok
                         THEN Finish(rq, Some(
                                 [status |-> 200,
                                  json |-> Some(
                                     [ticket |-> to_string(BlobTicket(
                                         node_id, Hash(data), blob.format)),
                                      node_id |-> to_string(node_id),
                                      blob_hash |-> to_string(blob.hash),
                                      blob_format |-> to_string(blob.format)])]))
                         ELSE Finish(rq, StatusResponse(500))]
    /\ UNCHANGED <<node_id_response, loaders, disk, store, run, pc,
                   secret_key, stack>>

\* Faulty variant: when the ticket cannot be built the handler removes the
\* bytes it has just ingested from the store.
NewTicket_RollsBack(r) ==
    /\ Serving
    /\ req[r].pc = "new_ticket"
    /\ LET rq == req[r]
           blob == Unwrap(rq.blob)
           node_id == Unwrap(app_state).node_id
           ticket == BlobTicket(node_id, blob.hash, blob.format)
       IN  \E ok \in BOOLEAN :
              /\ store' = IF ok THEN store ELSE store \ {Unwrap(rq.data)}
              /\ req' = [req EXCEPT ![r] =
                         IF ok
                         THEN Finish(rq, Some(
                                 [status |-> 200,
                                  json |-> Some(
                                     [ticket |-> to_string(ticket),
                                      node_id |-> to_string(node_id),
                                      blob_hash |-> to_string(blob.hash),
                                      blob_format |-> to_string(blob.format)])]))
                         ELSE Finish(rq, StatusResponse(500))]
    /\ UNCHANGED <<node_id_response, loaders, disk, run, pc, secret_key, stack>>

\* BlobTicket::new(..).map_err(|_| 500)?; Ok(Json(UploadResponse {..}))
NewTicket(r) ==
    /\ Serving
    /\ req[r].pc = "new_ticket"
    /\ LET rq == req[r]
           blob == Unwrap(rq.blob)
           node_id == Unwrap(app_state).node_id
           ticket == BlobTicket(node_id, blob.hash, blob.format)
       IN  \E ok \in BOOLEAN :
              req' = [req EXCEPT ![r] =
                         IF ok
                         THEN Finish(rq, Some(
                                 [status |-> 200,
                                  json |-> Some(
                                     [ticket |-> to_string(ticket),
                                      node_id |-> to_string(node_id),
                                      blob_hash |-> to_string(blob.hash),
                                      blob_format |-> to_string(blob.format)])]))
                         ELSE Finish(rq, StatusResponse(500))]
    /\ UNCHANGED <<node_id_response, loaders, disk, store, run, pc,
                   secret_key, stack>>

\* ------------------------------------------------------------ get_node_id

\* Faulty variant: the handler renders the identity of a key written into
\* the program instead of the identity held in the shared state.
GetNodeId_HardcodedIdentity ==
    /\ pc = "serve"
    /\ http = "serving"
    /\ node_id_response' =
          Some([status |-> 200,
                json |-> Some([node_id |->
                          to_string(public(from_bytes(KeyBytes(7))))])])
    /\ UNCHANGED <<loaders, disk, store, run, pc, secret_key, stack, req>>

\* A client sends GET /node-id and the handler, which awaits nothing,
\* answers: Json(json!({"node_id": app_state.node_id.to_string()}))
GetNodeId ==
    /\ pc = "serve"
    /\ http = "serving"
    /\ node_id_response' =
          Some([status |-> 200,
                json |-> Some([node_id |->
                                  to_string(Unwrap(app_state).node_id)])])
    /\ UNCHANGED <<loaders, disk, store, run, pc, secret_key, stack, req>>

\* ------------------------------------- load_or_generate_secret_key, racing

\* Several processes are started at the same time where no key file exists
\* yet: each calls load_or_generate_secret_key("secret/secret_key.bin").
\* Nothing orders the steps of one call against the steps of another.
RaceInit ==
    /\ key_file_exists = FALSE
    /\ key_file = <<>>
    /\ loaders = [p \in Loaders |-> [pc |-> "load_key", secret_key |-> None]]
    /\ store = {}
    /\ run = 1
    /\ pc = "load_key"
    /\ secret_key = None
    /\ endpoint = None
    /\ blobs = "none"
    /\ local_pool = "none"
    /\ node = "none"
    /\ app_state = None
    /\ http = "none"
    /\ calls = [node_shutdown |-> 0, pool_shutdown |-> 0]
    /\ req = [r \in Requests |-> IdleRequest]
    /\ node_id_response = None

\* What the calls of load_or_generate_secret_key leave alone.
beyond_key == <<store, run, pc, secret_key, stack, req, node_id_response>>

\* if path.exists()
LoaderCheckKeyFile(p) ==
    /\ loaders[p].pc = "load_key"
    /\ loaders' = [loaders EXCEPT ![p].pc =
                      IF key_file_exists THEN "read_key" ELSE "generate_key"]
    /\ UNCHANGED <<disk, beyond_key>>

\* fs::read(path).expect(..), try_into().expect(..), SecretKey::from_bytes
LoaderReadKey(p) ==
    /\ loaders[p].pc = "read_key"
    /\ \E read_ok \in BOOLEAN :
          loaders' = [loaders EXCEPT ![p] =
                         IF read_ok /\ key_file_exists /\ Len(key_file) = KeyLen
                         THEN [pc |-> "returned",
                               secret_key |-> Some(from_bytes(key_file))]
                         ELSE [pc |-> "panicked", secret_key |-> None]]
    /\ UNCHANGED <<disk, beyond_key>>

\* let secret_key = SecretKey::generate(rand::rngs::OsRng);
LoaderGenerateKey(p) ==
    /\ loaders[p].pc = "generate_key"
    /\ \E seed \in KeySeeds :
          loaders' = [loaders EXCEPT ![p] =
                         [pc |-> "create_file",
                          secret_key |-> Some(from_bytes(KeyBytes(seed)))]]
    /\ UNCHANGED <<disk, beyond_key>>

\* fs::write(path, &key_bytes), first half: the file is created, or
\* truncated when it exists, or the call fails.
LoaderCreateFile(p) ==
    /\ loaders[p].pc = "create_file"
    /\ \E ok \in BOOLEAN :
          IF ok
          THEN /\ key_file_exists' = TRUE
               /\ key_file' = <<>>
               /\ loaders' = [loaders EXCEPT ![p].pc = "write_bytes"]
          ELSE /\ UNCHANGED disk
               /\ loaders' = [loaders EXCEPT ![p] =
                                 [pc |-> "panicked", secret_key |-> None]]
    /\ UNCHANGED beyond_key

\* fs::write(path, &key_bytes), second half: the bytes are written and the
\* key is returned, or the call fails.
LoaderWriteBytes(p) ==
    /\ loaders[p].pc = "write_bytes"
    /\ \E ok \in BOOLEAN :
          IF ok
          THEN /\ key_file' = to_bytes(Unwrap(loaders[p].secret_key))
               /\ loaders' = [loaders EXCEPT ![p].pc = "returned"]
          ELSE /\ key_file' = key_file
               /\ loaders' = [loaders EXCEPT ![p] =
                                 [pc |-> "panicked", secret_key |-> None]]
    /\ UNCHANGED <<key_file_exists, beyond_key>>

RaceNext ==
    \/ \E p \in Loaders : LoaderCheckKeyFile(p)
    \/ \E p \in Loaders : LoaderReadKey(p)
    \/ \E p \in Loaders : LoaderGenerateKey(p)
    \/ \E p \in Loaders : LoaderCreateFile(p)
    \/ \E p \in Loaders : LoaderWriteBytes(p)

SpecRace == RaceInit /\ [][RaceNext]_vars

\* C18 (as claimed): once all the racing calls have returned, none of them
\* having failed, each of them has returned the key the file holds.
C18_RacersReturnFileKey ==
    (\A p \in Loaders : loaders[p].pc = "returned") =>
        \A p \in Loaders :
            /\ key_file_exists
            /\ Len(key_file) = KeyLen
            /\ Unwrap(loaders[p].secret_key) = from_bytes(key_file)

\* ------------------------------------------------------------- properties

Ended == {"exited_ok", "exited_err", "panicked", "killed"}

\* The positions of main after each startup step.
AfterListener == {"serve", "node_shutdown", "pool_shutdown"}
AfterNodeId == AfterListener \cup {"bind_listener"}
AfterRouter == AfterNodeId \cup {"read_node_id"}
AfterBlobs == AfterRouter \cup {"spawn_router"}
AfterEndpoint == AfterBlobs \cup {"open_blobs"}
AfterKey == AfterEndpoint \cup {"bind_endpoint"}

KeyObtained == IsSome(secret_key)
EndpointBound ==
    IsSome(endpoint) /\ KeyObtained
    /\ Unwrap(endpoint).secret_key = Unwrap(secret_key)
BlobsOpen == blobs = "open" /\ local_pool # "none"
RouterStarted == node # "none"
IdentityRead ==
    IsSome(app_state) /\ IsSome(endpoint)
    /\ Unwrap(app_state).node_id = node_id_of(Unwrap(endpoint))

\* C1: main reaches each startup step only with every earlier step done
\* (key, endpoint, content store, router, identity, in that order), the HTTP
\* server serves only with all five done, and a request is handled only in a
\* run in which all five were done.
C1_StartupBeforeServing ==
    /\ pc \in AfterKey => KeyObtained
    /\ pc \in AfterEndpoint => EndpointBound
    /\ pc \in AfterBlobs => BlobsOpen
    /\ pc \in AfterRouter => RouterStarted
    /\ pc \in AfterNodeId => IdentityRead
    /\ EndpointBound \/ ~IsSome(endpoint)
    /\ blobs = "open" => EndpointBound
    /\ RouterStarted => BlobsOpen
    /\ IsSome(app_state) => RouterStarted /\ IdentityRead
    /\ (\/ http # "none"
        \/ \E r \in Requests : req[r].pc \notin {"idle", "closed"})
          => KeyObtained /\ EndpointBound /\ BlobsOpen /\ RouterStarted
             /\ IdentityRead

\* C1 witness: the server is serving and has answered an upload with 200.
C1_Witness ==
    /\ pc = "serve"
    /\ \E r \in Requests :
          /\ req[r].pc = "responded"
          /\ Unwrap(req[r].response).status = 200

ValidKeyFile == key_file_exists /\ Len(key_file) = KeyLen
BadKeyFile == key_file_exists /\ Len(key_file) # KeyLen

\* C8: while the key file exists with a length other than 32 bytes, main
\* gets no further than reading it (it panics there): no key is returned, no
\* endpoint is bound, no HTTP server is started; and no step changes the
\* file.
C8_CorruptKeyRejected ==
    [][/\ BadKeyFile' =>
             /\ pc' \in {"load_key", "read_key", "panicked", "killed"}
             /\ secret_key' = None
             /\ endpoint' = None
             /\ http' = "none"
             /\ \A r \in Requests : req'[r].pc = "idle"
       /\ BadKeyFile => UNCHANGED disk]_vars

\* C8 witness: a run found a key file of a wrong length and panicked on it.
C8_Witness ==
    /\ BadKeyFile
    /\ Len(key_file) = KeyLen + 1
    /\ pc = "panicked"
    /\ run = 2

\* C9: no step changes a key file that exists with 32 bytes, and the file
\* is written only by the generate branch of a run that found no file.
C9_NeverOverwrites ==
    [][/\ ValidKeyFile => UNCHANGED disk
       /\ disk' # disk => ~key_file_exists /\ pc = "generate_key"]_vars

\* C9 witness: a second run has loaded its key from the 32-byte file the
\* first run already served with (the store holds a blob of that run).
C9_Witness ==
    /\ run = 2
    /\ pc = "bind_endpoint"
    /\ KeyObtained
    /\ key_file = KeyBytes(7)
    /\ store # {}

\* C10: the key a load-or-create call returned is the key of the 32 bytes
\* the file holds, so the identity is the one derived from the file; and a
\* valid file stays as it is, so every later call returns the same identity.
C10_IdentityFromFile ==
    /\ [](KeyObtained =>
             /\ ValidKeyFile
             /\ Unwrap(secret_key) = from_bytes(key_file)
             /\ public(Unwrap(secret_key)) = public(from_bytes(key_file)))
    /\ [][ValidKeyFile => ValidKeyFile' /\ key_file' = key_file]_vars

\* C10 witness: the second run has read back the key the first run
\* generated and served with (no behaviour starts with a key file of byte
\* 248, and the store holds a blob of the first run).
C10_Witness ==
    /\ run = 2
    /\ pc = "bind_endpoint"
    /\ KeyObtained
    /\ key_file = KeyBytes(248)
    /\ store # {}
    /\ public(Unwrap(secret_key)) = public(from_bytes(KeyBytes(248)))

\* The fields of a request that are file parts, and the first of them.
FileIndexes(received) == {i \in 1..Len(received) : IsFilePart(received[i])}
FirstFile(received) ==
    IF FileIndexes(received) = {} THEN None
    ELSE Some(received[CHOOSE i \in FileIndexes(received) :
                          \A j \in FileIndexes(received) : i <= j])

HasStatus(rq, codes) ==
    IsSome(rq.response) /\ Unwrap(rq.response).status \in codes

\* C2 (as claimed): a request whose body is complete and holds no file part
\* hands nothing to add_bytes and, when it is answered, is answered with
\* 400; so is a request whose body has no field at all.
C2_NoFileNoIngest ==
    [][\A r \in Requests :
          LET rq == req[r] IN
          /\ (rq.pc \in InFlight /\ BodyEnds(rq)
              /\ FileIndexes(rq.received) = {})
                => /\ req'[r].ingested = <<>>
                   /\ req'[r].pc = "responded" => HasStatus(req'[r], {400})
          /\ (rq.pc = "next_field" /\ rq.received = <<>>
              /\ req'[r].pc = "responded")
                => req'[r].ingested = <<>> /\ HasStatus(req'[r], {400})]_vars

\* C3 (as claimed): a request hands at most one byte sequence to add_bytes,
\* and it is the data of the first file part among its fields.
C3_FirstFileIngested ==
    \A r \in Requests :
       LET rq == req[r] IN
       /\ Len(rq.ingested) <= 1
       /\ (rq.pc \in InFlight /\ rq.ingested # <<>>)
             => /\ IsSome(FirstFile(rq.received))
                /\ rq.ingested = <<Unwrap(FirstFile(rq.received)).data>>

\* C4 (as claimed): when main has returned after the HTTP server exited
\* (here: without an error), both shutdown steps were called, whatever the
\* first of them reported.
C4_AllShutdownStepsAttempted ==
    (pc \in {"exited_ok", "exited_err"} /\ http = "exited_ok")
        => calls.node_shutdown >= 1 /\ calls.pool_shutdown >= 1

\* C5 (as claimed): when the process of a node that was serving has ended,
\* by a signal or after the exit of its HTTP server, the router and the pool
\* were shut down.
C5_ShutdownBeforeProcessEnds ==
    (pc \in Ended /\ http # "none")
        => /\ calls.node_shutdown >= 1 /\ node # "running"
           /\ calls.pool_shutdown >= 1 /\ local_pool = "shutdown"

\* C6 (as claimed): a request whose handler has ended has a response with
\* status 200, 400 or 500.
C6_AlwaysAStatus ==
    \A r \in Requests :
       req[r].pc \in {"responded", "panicked"}
          => HasStatus(req[r], {200, 400, 500})

\* A step in which the handler of request r fails: it panics, or it
\* answers 400 or 500.
FailsIn(r) ==
    /\ req[r].pc \in InFlight
    /\ \/ req'[r].pc = "panicked"
       \/ req'[r].pc = "responded" /\ HasStatus(req'[r], {400, 500})

\* C7: a step in which one request fails leaves main where it is, the HTTP
\* server serving as before, and every other request as it is.
C7_FailureIsolated ==
    [][\A r \in Requests :
          FailsIn(r) =>
             /\ pc' = pc
             /\ http' = http
             /\ \A q \in Requests \ {r} : req'[q] = req[q]]_vars

\* C7 witness: a request has panicked while an earlier one is still in
\* flight, and the server goes on serving.
C7_Witness ==
    /\ pc = "serve"
    /\ \E r \in Requests, q \in Requests :
          /\ q < r
          /\ req[r].pc = "panicked"
          /\ req[q].pc \in InFlight

\* The upload requests of this run that were answered with 200 OK.
Succeeded ==
    {r \in Requests : /\ req[r].pc = "responded"
                      /\ Unwrap(req[r].response).status = 200}

\* The body of the response to a successful upload.
Body(r) == Unwrap(Unwrap(req[r].response).json)

\* C11: the identity in the shared handler state is the one read back from
\* the router at startup and no handler changes it: once it is stored it
\* always equals the router's identity, and the node_id of every successful
\* upload response and the node_id returned by GET /node-id both render it,
\* so they are equal to each other.
C11_OneIdentity ==
    IsSome(app_state) =>
        LET id == to_string(node_id_of(Unwrap(endpoint))) IN
        /\ to_string(Unwrap(app_state).node_id) = id
        /\ \A r \in Succeeded : Body(r).node_id = id
        /\ IsSome(node_id_response) =>
              /\ Unwrap(Unwrap(node_id_response).json).node_id = id
              /\ \A r \in Succeeded :
                    Body(r).node_id =
                        Unwrap(Unwrap(node_id_response).json).node_id

\* An upload succeeded and GET /node-id was answered in the same run, while
\* another upload is still being handled.
C11_Witness ==
    /\ pc = "serve"
    /\ IsSome(node_id_response)
    /\ Succeeded # {}
    /\ \E r \in Requests : req[r].pc \in InFlight

\* The step of request r in which BlobTicket::new fails.
TicketFails(r) ==
    /\ req[r].pc = "new_ticket"
    /\ req'[r].pc = "responded"
    /\ Unwrap(req'[r].response).status # 200

AddBytesFails(r) ==
    /\ req[r].pc = "add_bytes"
    /\ req'[r].pc \notin {"add_bytes", "new_ticket", "dropped"}

\* C13: when the content store fails the ingestion, the request is answered
\* with 500 and no body, no ticket is built, and the handler has returned:
\* a request that was answered takes no further step, so no further field
\* of it is read or ingested.
C13_IngestFailureEndsRequest ==
    [][\A r \in Requests :
          /\ AddBytesFails(r) =>
                /\ req'[r].pc = "responded"
                /\ req'[r].response = StatusResponse(500)
                /\ req'[r].blob = None
          /\ req[r].pc = "responded" =>
                \/ req'[r] = req[r]
                \/ req'[r].pc = "closed"]_vars

\* A request was answered with 500 and the bytes it handed to the store are
\* not stored: the ingestion is what failed.
C13_Witness ==
    \E r \in Requests :
        /\ req[r].pc = "responded"
        /\ req[r].response = StatusResponse(500)
        /\ Len(req[r].ingested) = 1
        /\ req[r].ingested[1] \notin store

\* C14: any two successful uploads of the same bytes, one after the other or
\* racing, return the same blob_hash and the same blob_format, and each of
\* them has handed its bytes to the store itself.
C14_SameBytesSameDescriptor ==
    \A r, q \in Succeeded :
        /\ Len(req[r].ingested) = 1
        /\ req[r].ingested = req[q].ingested =>
              /\ Body(r).blob_hash = Body(q).blob_hash
              /\ Body(r).blob_format = Body(q).blob_format

\* Two uploads of the same bytes have both succeeded.
C14_Witness ==
    \E r, q \in Succeeded :
        /\ r # q
        /\ req[r].ingested = req[q].ingested
        /\ Len(req[r].ingested) = 1

from_string(s) == s.text

\* C17: in every successful upload response the ticket is the one built
\* from the identity rendered in node_id and the descriptor rendered in
\* blob_hash and blob_format, and that descriptor is the one the store
\* returned for the bytes this request ingested.
C17_FieldsAgree ==
    \A r \in Succeeded :
        LET body == Body(r) IN
        /\ body.ticket =
              to_string(BlobTicket(from_string(body.node_id),
                                   from_string(body.blob_hash),
                                   from_string(body.blob_format)))
        /\ req[r].ingested # <<>>
        /\ body.blob_hash = to_string(Hash(req[r].ingested[1]))
        /\ body.blob_format = to_string("Raw")

\* Two uploads of different bytes have succeeded in the same run.
C17_Witness ==
    \E r, q \in Succeeded :
        /\ req[r].ingested # <<>>
        /\ req[q].ingested # <<>>
        /\ req[r].ingested # req[q].ingested
        /\ Body(r).blob_hash # Body(q).blob_hash

Next ==
    \/ GetNodeId
    \/ \E r \in Requests : Arrive(r)
    \/ \E r \in Requests : NextField(r)
    \/ \E r \in Requests : ReadBytes(r)
    \/ \E r \in Requests : AddBytes(r)
    \/ \E r \in Requests : NewTicket(r)
    \/ CheckKeyFile
    \/ ReadKey
    \/ GenerateKey
    \/ BindEndpoint
    \/ OpenBlobs
    \/ SpawnRouter
    \/ BuildAppState
    \/ BindListener
    \/ ServeExit
    \/ NodeShutdown
    \/ PoolShutdown
    \/ Signal
    \/ Restart

Spec == Init /\ [][Next]_vars

====
